---- MODULE Spec2Model ----
(***************************************************************************)
(* Model of "In PC/Controller.py": the ROS 2 node Controller, which drives *)
(* a robot with two PID loops (distance, orientation) and stops when both  *)
(* have converged.                                                         *)
(*                                                                         *)
(* Numbers.  Every real of the program is an integer number of units,      *)
(* Milli units being 0.001; samples are multiples of 0.001, which makes    *)
(* the proportional and integral terms of both controllers exact.  The     *)
(* derivative term divides by the elapsed time, so a PID output is kept as *)
(* a mixed number i + n/d (0 <= n < d), also exact.  Time is counted in    *)
(* clock ticks of 5 ms.  Floating-point rounding is not modelled.          *)
(***************************************************************************)
EXTENDS Integers, Sequences, FiniteSets, TLC

\* ---------------------------------------------------------------- scales

\* simple_pid's default sample_time (0.01 s) in clock ticks of 5 ms
SampleTimeTicks == 2
TicksPerSecond == 100 * SampleTimeTicks
\* units per 0.001
Milli == 10 * TicksPerSecond

\* ---------------------------------------------------------------- bounds

\* callback invocations dispatched in one run
MaxCalls == 4

\* Time that passes before a callback is dispatched: 5 ms or 1 s.
Deltas == {1, TicksPerSecond}

\* msg.x of the distance_variation messages: errors 37.0, 1.0, 0.2, 0.0, -0.5
DistanceSamples ==
  {50000 * Milli, 14000 * Milli, 13200 * Milli, 13000 * Milli, 12500 * Milli}

\* msg.y of the angle_variation messages
AngleSamples == {200 * Milli, -150 * Milli, -55 * Milli, 0}

\* ---------------------------------------------------------------- mixed numbers

\* the integer x
Q(x) == [i |-> x, n |-> 0, d |-> 1]

\* w + num/den, den > 0
Mixed(w, num, den) ==
  IF num % den = 0
  THEN Q(w + (num \div den))
  ELSE [i |-> w + (num \div den), n |-> num % den, d |-> den]

QLess(a, b) == a.i < b.i \/ (a.i = b.i /\ a.n * b.d < b.n * a.d)
QLeq(a, b) == ~QLess(b, a)
QNeg(a) == IF a.n = 0 THEN Q(-a.i) ELSE [i |-> -a.i - 1, n |-> a.d - a.n, d |-> a.d]
QMin(a, b) == IF QLess(b, a) THEN b ELSE a
QMax(a, b) == IF QLess(a, b) THEN b ELSE a
Abs(x) == IF x < 0 THEN -x ELSE x

\* ---------------------------------------------------------------- simple_pid.PID

\* PID(Kp, Ki, Kd, setpoint): gains in tenths, constructed at time 0
PID(Kp10, Ki10, Kd10, setpoint) ==
  [Kp10 |-> Kp10, Ki10 |-> Ki10, Kd10 |-> Kd10, setpoint |-> setpoint,
   integral |-> 0, last_time |-> 0,
   has_output |-> FALSE, last_output |-> Q(0),
   has_input |-> FALSE, last_input |-> 0,
   evals |-> 0]

\* pid(input_) at time t: the new controller state and the output.  A call less
\* than sample_time after the last computed output returns that output again
\* and changes nothing; otherwise error = setpoint - input_, the integral grows
\* by Ki * error * dt, the derivative is taken on the measurement
\* (-Kd * d_input / dt) and the output is the sum of the three terms, without
\* output limits.  dt is never 0 here: the clock advances before every callback.
PIDCall(pid, input_, t) ==
  LET dt == t - pid.last_time
  IN IF dt < SampleTimeTicks /\ pid.has_output
     THEN [pid |-> [pid EXCEPT !.evals = @ + 1], out |-> pid.last_output]
     ELSE LET error == pid.setpoint - input_
              d_input == input_ - (IF pid.has_input THEN pid.last_input ELSE input_)
              proportional == (pid.Kp10 * error) \div 10
              integral == pid.integral + pid.Ki10 * (error \div (10 * TicksPerSecond)) * dt
              output == Mixed(proportional + integral,
                              -(pid.Kd10 * (TicksPerSecond \div 10) * d_input), dt)
          IN [pid |-> [pid EXCEPT !.integral = integral, !.last_time = t,
                                  !.has_output = TRUE, !.last_output = output,
                                  !.has_input = TRUE, !.last_input = input_,
                                  !.evals = @ + 1],
              out |-> output]

\* ---------------------------------------------------------------- Controller

\* distance_error = distance_variation - 13.0
DistanceOffset == 13000 * Milli
\* max(min(control_signal, 0.2), -0.2)
SpeedLimit == 200 * Milli
\* max(min(control_signal, 0.1), -0.1)
TurnLimit == 100 * Milli
\* 0 < distance_error < 0.3
DistanceBand == 300 * Milli
\* 0 < abs(angle_variation) <= 0.055
AngleDeadBand == 55 * Milli

\* Controller.__init__
NewController ==
  [time |-> <<>>, distance_errors |-> <<>>, orientation_errors |-> <<>>,
   right_turns |-> 0, left_turns |-> 0,
   distance_condition_met |-> FALSE, angle_condition_met |-> FALSE,
   pid_distance |-> PID(10, 2, 0, 6000 * Milli),
   pid_orientation |-> PID(5, 1, 5, 0),
   target_reached |-> FALSE,
   keyboard_interrupt_occurred |-> FALSE,
   angle_correct |-> FALSE, distance_correct |-> FALSE]

\* Twist(): every component 0
Twist == [linear_x |-> Q(0), angular_z |-> Q(0)]

VARIABLES
  controller,     \* the Controller object's fields
  cmd_vel,        \* every message published on cmd_vel, in order
  reach_log,      \* the two flags at each assignment that made target_reached true
  check_calls,    \* invocations of check_target_reached
  destroy_calls,  \* invocations of destroy_node
  now,            \* the clock
  calls,          \* callbacks dispatched
  last,           \* the last callback dispatched, and the state it started in
  main_pc,        \* where main is: "spin", "done", or "raised" (plot_data raised)
  reports,        \* the turn totals main printed, in order
  plot_calls      \* invocations of plot_data

vars == <<controller, cmd_vel, reach_log, check_calls, destroy_calls, now, calls, last,
          main_pc, reports, plot_calls>>

\* The state a handler works on.
World ==
  [self |-> controller, cmd_vel |-> cmd_vel, reach_log |-> reach_log,
   check_calls |-> check_calls, destroy_calls |-> destroy_calls]

\* self.publisher_velocity.publish(twist), called from callback `by`
publish(w, twist, by) ==
  [w EXCEPT !.cmd_vel = Append(@, [by |-> by,
                                   linear_x |-> twist.linear_x,
                                   angular_z |-> twist.angular_z,
                                   after_reached |-> w.self.target_reached])]

\* self.destroy_node()
destroy_node(w) == [w EXCEPT !.destroy_calls = @ + 1]

\* self.target_reached = True, from `by`
SetTargetReached(w, by) ==
  [w EXCEPT !.self.target_reached = TRUE,
            !.reach_log = IF w.self.target_reached THEN @
                          ELSE Append(@, [by |-> by,
                                          distance_correct |-> w.self.distance_correct,
                                          angle_correct |-> w.self.angle_correct])]

InBand(distance_error) == 0 < distance_error /\ distance_error < DistanceBand

\* the dead-band test with `<` where the code has `<=`
InDeadBand_open(angle_variation) ==
  0 < Abs(angle_variation) /\ Abs(angle_variation) < AngleDeadBand

InDeadBand(angle_variation) ==
  0 < Abs(angle_variation) /\ Abs(angle_variation) <= AngleDeadBand

\* check_target_reached testing `or` where the code tests `and`
check_target_reached_either(w) ==
  LET w1 == [w EXCEPT !.check_calls = @ + 1]
  IN IF w1.self.distance_correct \/ w1.self.angle_correct
     THEN destroy_node(SetTargetReached(w1, "check_target_reached"))
     ELSE w1

\* Controller.check_target_reached
check_target_reached(w) ==
  LET w1 == [w EXCEPT !.check_calls = @ + 1]
  IN IF w1.self.distance_correct /\ w1.self.angle_correct
     THEN destroy_node(SetTargetReached(w1, "check_target_reached"))
     ELSE w1

\* the first branch terminating in the band without testing angle_correct
DistanceFirstBranch_ignores_angle(w, distance_error) ==
  LET w1 == [w EXCEPT !.self.distance_correct = InBand(distance_error)]
  IN IF InBand(distance_error)
     THEN destroy_node([SetTargetReached(w1, "distance_callback")
                          EXCEPT !.self.angle_correct = FALSE])
     ELSE w1

\* The first policy branch of distance_callback (lines 73-85).
DistanceFirstBranch(w, distance_error) ==
  LET w1 == [w EXCEPT !.self.distance_correct = InBand(distance_error)]
  IN IF w1.self.angle_correct /\ InBand(distance_error)
     THEN destroy_node([SetTargetReached(w1, "distance_callback")
                          EXCEPT !.self.angle_correct = FALSE])
     ELSE w1

\* the if/elif testing `control_signal > 0` where the code tests `control_signal < 0`
DistancePolicy_positive(w, control_signal, distance_error) ==
  IF QLess(Q(0), control_signal) \/ distance_error > DistanceBand
  THEN [w |-> DistanceFirstBranch(w, distance_error),
        twist |-> [Twist EXCEPT !.linear_x = control_signal]]
  ELSE IF Abs(IF distance_error < 0 THEN 1 ELSE 0) # 0
  THEN [w |-> [w EXCEPT !.self.distance_correct = FALSE],
        twist |-> [Twist EXCEPT !.linear_x = QNeg(control_signal)]]
  ELSE [w |-> w, twist |-> Twist]

\* the elif branch commanding the control signal itself, not its negation
DistancePolicy_not_negated(w, control_signal, distance_error) ==
  IF QLess(control_signal, Q(0)) \/ distance_error > DistanceBand
  THEN [w |-> DistanceFirstBranch(w, distance_error),
        twist |-> [Twist EXCEPT !.linear_x = control_signal]]
  ELSE IF Abs(IF distance_error < 0 THEN 1 ELSE 0) # 0
  THEN [w |-> [w EXCEPT !.self.distance_correct = FALSE],
        twist |-> [Twist EXCEPT !.linear_x = control_signal]]
  ELSE [w |-> w, twist |-> Twist]

\* The if/elif of distance_callback (lines 71-94): the state and the twist built.
DistancePolicy(w, control_signal, distance_error) ==
  IF QLess(control_signal, Q(0)) \/ distance_error > DistanceBand
  THEN [w |-> DistanceFirstBranch(w, distance_error),
        twist |-> [Twist EXCEPT !.linear_x = control_signal]]
  ELSE IF Abs(IF distance_error < 0 THEN 1 ELSE 0) # 0
  THEN [w |-> [w EXCEPT !.self.distance_correct = FALSE],
        twist |-> [Twist EXCEPT !.linear_x = QNeg(control_signal)]]
  ELSE [w |-> w, twist |-> Twist]

\* the clamp without its lower bound: min(control_signal, limit)
Clamp_upper(control_signal, limit) == QMin(control_signal, Q(limit))

\* max(min(control_signal, limit), -limit)
Clamp(control_signal, limit) == QMax(QMin(control_signal, Q(limit)), Q(-limit))

\* the body publishing inside the two branches only, not after the if/elif
DistanceBody_branch_publish(w, msg_x, t) ==
  LET distance_variation == msg_x
      distance_error == distance_variation - DistanceOffset
      r == PIDCall(w.self.pid_distance, distance_error, t)
      control_signal == Clamp(r.out, SpeedLimit)
      w1 == [w EXCEPT !.self.pid_distance = r.pid,
                      !.self.time = Append(@, Len(@)),
                      !.self.distance_errors = Append(@, distance_error)]
      p == DistancePolicy(w1, control_signal, distance_error)
  IN IF QLess(control_signal, Q(0)) \/ distance_error > DistanceBand \/ distance_error < 0
     THEN publish(p.w, p.twist, "distance_callback")
     ELSE p.w

\* The guarded body of distance_callback (lines 51-97).
DistanceBody(w, msg_x, t) ==
  LET distance_variation == msg_x
      distance_error == distance_variation - DistanceOffset
      r == PIDCall(w.self.pid_distance, distance_error, t)
      control_signal == Clamp(r.out, SpeedLimit)
      w1 == [w EXCEPT !.self.pid_distance = r.pid,
                      !.self.time = Append(@, Len(@)),
                      !.self.distance_errors = Append(@, distance_error)]
      p == DistancePolicy(w1, control_signal, distance_error)
  IN publish(p.w, p.twist, "distance_callback")

\* distance_callback clearing target_reached on entry instead of testing it
distance_callback_rearmed(w, msg_x, t) ==
  DistanceBody([w EXCEPT !.self.target_reached = FALSE], msg_x, t)

\* Controller.distance_callback(msg) with msg.x = msg_x, at time t
distance_callback(w, msg_x, t) ==
  IF ~w.self.target_reached THEN DistanceBody(w, msg_x, t) ELSE w

\* the dead-band branch zeroing angular.z of the last published twist instead of
\* a new Twist()
AnglesDeadBand_reuses_twist(w, angle_variation) ==
  LET w1 == [w EXCEPT !.self.orientation_errors = Append(@, angle_variation)]
      twist == [linear_x |-> IF Len(w.cmd_vel) > 0
                             THEN w.cmd_vel[Len(w.cmd_vel)].linear_x ELSE Q(0),
                angular_z |-> Q(0)]
      w2 == [w1 EXCEPT !.self.angle_correct = TRUE]
  IN publish(w2, twist, "angles_callback")

\* The dead-band branch of angles_callback (lines 110-122).
AnglesDeadBand(w, angle_variation) ==
  LET w1 == [w EXCEPT !.self.orientation_errors = Append(@, angle_variation)]
      twist == [Twist EXCEPT !.angular_z = Q(0)]
      w2 == [w1 EXCEPT !.self.angle_correct = TRUE]
  IN publish(w2, twist, "angles_callback")

\* the turn counters with the two signs exchanged
CountTurn_swapped(w, twist_angular_z) ==
  IF QLess(Q(0), twist_angular_z)
  THEN [w EXCEPT !.self.left_turns = @ + 1]
  ELSE IF QLess(twist_angular_z, Q(0))
  THEN [w EXCEPT !.self.right_turns = @ + 1]
  ELSE w

\* The turn counters of angles_callback (lines 141-146).
CountTurn(w, twist_angular_z) ==
  IF QLess(twist_angular_z, Q(0))
  THEN [w EXCEPT !.self.left_turns = @ + 1]
  ELSE IF QLess(Q(0), twist_angular_z)
  THEN [w EXCEPT !.self.right_turns = @ + 1]
  ELSE w

\* the correction branch clearing distance_correct where the code clears angle_correct
AnglesCorrection_wrong_flag(w, angle_variation, t) ==
  LET r == PIDCall(w.self.pid_orientation, angle_variation, t)
      control_signal == Clamp(r.out, TurnLimit)
      twist_angular_z == QNeg(control_signal)
      w1 == [w EXCEPT !.self.pid_orientation = r.pid,
                      !.self.orientation_errors = Append(@, angle_variation)]
      twist == [Twist EXCEPT !.angular_z = twist_angular_z]
      w2 == CountTurn(w1, twist_angular_z)
      w3 == publish(w2, twist, "angles_callback")
      w4 == [w3 EXCEPT !.self.distance_correct = FALSE]
  IN check_target_reached(w4)

\* the correction branch commanding the control signal itself, not its negation
AnglesCorrection_not_negated(w, angle_variation, t) ==
  LET r == PIDCall(w.self.pid_orientation, angle_variation, t)
      control_signal == Clamp(r.out, TurnLimit)
      twist_angular_z == control_signal
      w1 == [w EXCEPT !.self.pid_orientation = r.pid,
                      !.self.orientation_errors = Append(@, angle_variation)]
      twist == [Twist EXCEPT !.angular_z = twist_angular_z]
      w2 == CountTurn(w1, twist_angular_z)
      w3 == publish(w2, twist, "angles_callback")
      w4 == [w3 EXCEPT !.self.angle_correct = FALSE]
  IN check_target_reached(w4)

\* The correction branch of angles_callback (lines 125-150).
AnglesCorrection(w, angle_variation, t) ==
  LET r == PIDCall(w.self.pid_orientation, angle_variation, t)
      control_signal == Clamp(r.out, TurnLimit)
      twist_angular_z == QNeg(control_signal)
      w1 == [w EXCEPT !.self.pid_orientation = r.pid,
                      !.self.orientation_errors = Append(@, angle_variation)]
      twist == [Twist EXCEPT !.angular_z = twist_angular_z]
      w2 == CountTurn(w1, twist_angular_z)
      w3 == publish(w2, twist, "angles_callback")
      w4 == [w3 EXCEPT !.self.angle_correct = FALSE]
  IN check_target_reached(w4)

\* The guarded body of angles_callback (lines 103-150).
AnglesBody(w, msg_y, t) ==
  LET angle_variation == msg_y
  IN IF InDeadBand(angle_variation)
     THEN AnglesDeadBand(w, angle_variation)
     ELSE AnglesCorrection(w, angle_variation, t)

\* angles_callback without the `if not self.target_reached` guard
angles_callback_unguarded(w, msg_y, t) == AnglesBody(w, msg_y, t)

\* Controller.angles_callback(msg) with msg.y = msg_y, at time t
angles_callback(w, msg_y, t) ==
  IF ~w.self.target_reached THEN AnglesBody(w, msg_y, t) ELSE w

\* ---------------------------------------------------------------- state machine

Init ==
  /\ controller = NewController
  /\ cmd_vel = <<>>
  /\ reach_log = <<>>
  /\ check_calls = 0
  /\ destroy_calls = 0
  /\ now = 0
  /\ calls = 0
  /\ last = [cb |-> "none", arg |-> 0, pre |-> NewController, npub |-> 0, nchk |-> 0]
  /\ main_pc = "spin"
  /\ reports = <<>>
  /\ plot_calls = 0

\* The handler's result becomes the state; `last` remembers where it started.
Dispatch(w, cb, arg, t) ==
  /\ main_pc = "spin"
  /\ controller' = w.self
  /\ cmd_vel' = w.cmd_vel
  /\ reach_log' = w.reach_log
  /\ check_calls' = w.check_calls
  /\ destroy_calls' = w.destroy_calls
  /\ now' = t
  /\ calls' = calls + 1
  /\ last' = [cb |-> cb, arg |-> arg, pre |-> controller,
              npub |-> Len(cmd_vel), nchk |-> check_calls]
  /\ UNCHANGED <<main_pc, reports, plot_calls>>

\* The executor delivers a distance_variation message.
DistanceCallback ==
  /\ calls < MaxCalls
  /\ \E msg_x \in DistanceSamples, delta \in Deltas :
       Dispatch(distance_callback(World, msg_x, now + delta),
                "distance_callback", msg_x, now + delta)

\* The executor delivers an angle_variation message.
AnglesCallback ==
  /\ calls < MaxCalls
  /\ \E msg_y \in AngleSamples, delta \in Deltas :
       Dispatch(angles_callback(World, msg_y, now + delta),
                "angles_callback", msg_y, now + delta)

Next == DistanceCallback \/ AnglesCallback

Spec == Init /\ [][Next]_vars

\* ---------------------------------------------------------------- main

\* callbacks dispatched before main leaves rclpy.spin
MaxMainCalls == 2

\* main with plot_data called on both paths
MainExit_always_plots(interrupted) ==
  /\ main_pc = "spin"
  /\ controller' = [controller EXCEPT !.keyboard_interrupt_occurred = @ \/ interrupted]
  /\ reports' = Append(reports, [right_turns |-> controller.right_turns,
                                 left_turns |-> controller.left_turns])
  /\ plot_calls' = plot_calls + 1
  /\ main_pc' = IF Len(controller.time) = Len(controller.orientation_errors)
                THEN "done" ELSE "raised"
  /\ destroy_calls' = IF Len(controller.time) = Len(controller.orientation_errors)
                      THEN destroy_calls + 1 ELSE destroy_calls
  /\ last' = [last EXCEPT !.cb = IF interrupted THEN "KeyboardInterrupt" ELSE "spin_returned",
                          !.pre = controller]
  /\ UNCHANGED <<cmd_vel, reach_log, check_calls, now, calls>>

\* main from the end of rclpy.spin (lines 185-197): spin raised KeyboardInterrupt
\* (interrupted) or returned.  plot_data's plt.plot(self.time,
\* self.orientation_errors) raises ValueError when the two lists differ in
\* length, and main then ends before destroy_node.
MainExit(interrupted) ==
  LET flag == controller.keyboard_interrupt_occurred \/ interrupted
      plots == ~flag
      raises == plots /\ Len(controller.time) # Len(controller.orientation_errors)
  IN /\ main_pc = "spin"
     /\ controller' = [controller EXCEPT !.keyboard_interrupt_occurred = flag]
     /\ reports' = Append(reports, [right_turns |-> controller.right_turns,
                                    left_turns |-> controller.left_turns])
     /\ plot_calls' = IF plots THEN plot_calls + 1 ELSE plot_calls
     /\ main_pc' = IF raises THEN "raised" ELSE "done"
     /\ destroy_calls' = IF raises THEN destroy_calls ELSE destroy_calls + 1
     /\ last' = [last EXCEPT !.cb = IF interrupted THEN "KeyboardInterrupt"
                                    ELSE "spin_returned",
                             !.pre = controller]
     /\ UNCHANGED <<cmd_vel, reach_log, check_calls, now, calls>>

\* The operator interrupts rclpy.spin.
KeyboardInterrupt == MainExit(TRUE)

\* rclpy.spin returns.
SpinReturns == MainExit(FALSE)

\* The executor delivers a distance_variation message.
MainDistanceCallback ==
  /\ calls < MaxMainCalls
  /\ \E msg_x \in DistanceSamples, delta \in Deltas :
       Dispatch(distance_callback(World, msg_x, now + delta),
                "distance_callback", msg_x, now + delta)

\* The executor delivers an angle_variation message.
MainAnglesCallback ==
  /\ calls < MaxMainCalls
  /\ \E msg_y \in AngleSamples, delta \in Deltas :
       Dispatch(angles_callback(World, msg_y, now + delta),
                "angles_callback", msg_y, now + delta)

NextMain == MainDistanceCallback \/ MainAnglesCallback \/ KeyboardInterrupt \/ SpinReturns

SpecMain == Init /\ [][NextMain]_vars

\* ---------------------------------------------------------------- scenarios

\* angle samples delivered in a scenario run
MaxScenarioAngles == 2

\* Time that passes before a callback of a scenario: 5 ms, 10 ms or 1 s.
ScenarioDeltas == {1, SampleTimeTicks, TicksPerSecond}

\* The distance samples 20.0, 14.0, 13.2, 13.05: errors 7.0, 1.0, 0.2, 0.05.
ConvergeDistances == <<20000 * Milli, 14000 * Milli, 13200 * Milli, 13050 * Milli>>

\* Angle samples inside the dead-band.
ConvergeAngles == {30 * Milli, -55 * Milli}

\* The executor delivers the next distance sample of the convergence scenario.
ConvergeDistanceCallback ==
  /\ ~controller.target_reached
  /\ Len(controller.time) < Len(ConvergeDistances)
  /\ \E delta \in ScenarioDeltas :
       LET msg_x == ConvergeDistances[Len(controller.time) + 1]
       IN Dispatch(distance_callback(World, msg_x, now + delta),
                   "distance_callback", msg_x, now + delta)

\* The executor delivers a dead-band angle sample of the convergence scenario.
ConvergeAnglesCallback ==
  /\ ~controller.target_reached
  /\ Len(controller.orientation_errors) < MaxScenarioAngles
  /\ \E msg_y \in ConvergeAngles, delta \in ScenarioDeltas :
       Dispatch(angles_callback(World, msg_y, now + delta),
                "angles_callback", msg_y, now + delta)

NextConverge == ConvergeDistanceCallback \/ ConvergeAnglesCallback

SpecConverge == Init /\ [][NextConverge]_vars

\* distance samples delivered during the turn scenario
MaxScenarioDistances == 1

\* Time that passes before a callback of the turn scenario: 5 ms, 10 ms, 1 s or 8 s.
TurnDeltas == {1, SampleTimeTicks, TicksPerSecond, 8 * TicksPerSecond}

\* The angle samples 0.2, -0.15, 0.03.
TurnAngles == <<200 * Milli, -150 * Milli, 30 * Milli>>

\* The executor delivers the next angle sample of the turn scenario.
TurnAnglesCallback ==
  /\ ~controller.target_reached
  /\ Len(controller.orientation_errors) < Len(TurnAngles)
  /\ \E delta \in TurnDeltas :
       LET msg_y == TurnAngles[Len(controller.orientation_errors) + 1]
       IN Dispatch(angles_callback(World, msg_y, now + delta),
                   "angles_callback", msg_y, now + delta)

\* The executor delivers a distance sample during the turn scenario.
TurnDistanceCallback ==
  /\ ~controller.target_reached
  /\ Len(controller.time) < MaxScenarioDistances
  /\ \E msg_x \in DistanceSamples, delta \in TurnDeltas :
       Dispatch(distance_callback(World, msg_x, now + delta),
                "distance_callback", msg_x, now + delta)

NextTurn == TurnAnglesCallback \/ TurnDistanceCallback

SpecTurn == Init /\ [][NextTurn]_vars

\* ---------------------------------------------------------------- properties

\* The last callback ran its body: target_reached was false when it was dispatched.
Processed(cb) == last.cb = cb /\ ~last.pre.target_reached

\* The last dispatch made target_reached true.
JustReached == ~last.pre.target_reached /\ controller.target_reached

\* C1: target_reached changes from false to true only at a program point where
\* distance_correct and angle_correct are both true: every assignment that made
\* it true found both flags true, and no change happens without such an assignment.
RendezvousOnly ==
  /\ \A i \in 1..Len(reach_log) :
       reach_log[i].distance_correct /\ reach_log[i].angle_correct
  /\ JustReached => Len(reach_log) > 0

\* C1 witness: distance_callback has made the transition.
RendezvousReached ==
  /\ JustReached
  /\ last.cb = "distance_callback"
  /\ Len(reach_log) = 1
  /\ reach_log[1].by = "distance_callback"

\* C2 (as claimed): no command is published on cmd_vel after target_reached was
\* set to true, the rest of the invocation that set it included.
NoPublishAfterReached ==
  \A i \in 1..Len(cmd_vel) : ~cmd_vel[i].after_reached

\* C3: target_reached starts false, changes from false to true at most once,
\* and no callback sets it back to false.
TargetReachedMonotonic ==
  /\ calls = 0 => ~controller.target_reached
  /\ last.pre.target_reached => controller.target_reached
  /\ Len(reach_log) <= 1
  /\ controller.target_reached <=> Len(reach_log) = 1

\* C3 witness: a callback was dispatched after the transition, and the flag stayed.
StaysReached ==
  /\ last.pre.target_reached
  /\ controller.target_reached
  /\ last.cb = "distance_callback"

\* C4: a callback dispatched when target_reached is true leaves the flags, the
\* turn counters, the error logs and both PID states as they were.
NoOpAfterReached ==
  (last.cb # "none" /\ last.pre.target_reached) => controller = last.pre

\* C4 witness: angles_callback was dispatched with target_reached true.
AnglesAfterReached ==
  /\ last.cb = "angles_callback"
  /\ last.pre.target_reached
  /\ ~InDeadBand(last.arg)

\* The state a handler works on right after construction.
InitWorld ==
  [self |-> NewController, cmd_vel |-> <<>>, reach_log |-> <<>>,
   check_calls |-> 0, destroy_calls |-> 0]

\* target_reached after the distance sample x at time t1, then the angle sample y
\* at time t2, from the initial state
DistanceThenAngle(x, y, t1, t2) ==
  angles_callback(distance_callback(InitWorld, x, t1), y, t2).self.target_reached

\* the same two samples, the angle sample first
AngleThenDistance(x, y, t1, t2) ==
  distance_callback(angles_callback(InitWorld, y, t1), x, t2).self.target_reached

\* distance samples with 0 < distance_error < 0.3, angle samples with 0 < |v| <= 0.055
BandSamples == {13001 * Milli, 13100 * Milli, 13200 * Milli, 13299 * Milli}
DeadBandSamples == {-55 * Milli, -30 * Milli, -Milli, Milli, 30 * Milli, 55 * Milli}

\* A run of exactly one in-band distance sample and one dead-band angle sample.
OnePairRun ==
  /\ calls = 2
  /\ Len(controller.distance_errors) = 1
  /\ Len(controller.orientation_errors) = 1
  /\ 0 < controller.distance_errors[1]
  /\ controller.distance_errors[1] < 300 * Milli
  /\ 0 < Abs(controller.orientation_errors[1])
  /\ Abs(controller.orientation_errors[1]) <= 55 * Milli

\* C5: from the initial state, one in-band distance sample and one dead-band
\* angle sample end with the same target_reached in either order: computed for
\* every such pair and timing, and every run of such a pair ends with the value
\* the opposite order gives.
OrderIndependent ==
  /\ calls = 0 =>
       \A x \in BandSamples, y \in DeadBandSamples, t1 \in Deltas, d2 \in Deltas,
          u1 \in Deltas, e2 \in Deltas :
         DistanceThenAngle(x, y, t1, t1 + d2) = AngleThenDistance(x, y, u1, u1 + e2)
  /\ OnePairRun =>
       \A t1 \in Deltas, d2 \in Deltas :
         LET x == controller.distance_errors[1] + 13000 * Milli
             y == controller.orientation_errors[1]
         IN controller.target_reached =
              IF last.cb = "angles_callback"
              THEN AngleThenDistance(x, y, t1, t1 + d2)
              ELSE DistanceThenAngle(x, y, t1, t1 + d2)

\* C5 witness: the angle sample was processed first, the distance sample second.
AngleFirstPair == OnePairRun /\ last.cb = "distance_callback"

\* the command published by the last callback
LastCommand == cmd_vel[Len(cmd_vel)]

\* C6: an angle sample with 0 < |v| <= 0.055, processed, publishes one command
\* with angular velocity 0, leaves angle_correct true, changes neither turn
\* counter, does not evaluate the orientation PID and does not call
\* check_target_reached.
DeadBandStep ==
  (Processed("angles_callback") /\ 0 < Abs(last.arg) /\ Abs(last.arg) <= 55 * Milli) =>
    /\ Len(cmd_vel) = last.npub + 1
    /\ LastCommand.by = "angles_callback"
    /\ LastCommand.angular_z = Q(0)
    /\ controller.angle_correct
    /\ controller.left_turns = last.pre.left_turns
    /\ controller.right_turns = last.pre.right_turns
    /\ controller.pid_orientation = last.pre.pid_orientation
    /\ check_calls = last.nchk

\* C6 witness: a sample on the edge of the dead-band, after a turn was counted.
DeadBandEdge ==
  /\ Processed("angles_callback")
  /\ last.arg = -55 * Milli
  /\ last.pre.left_turns + last.pre.right_turns > 0
  /\ ~last.pre.angle_correct

\* the commands angles_callback published whose angular velocity satisfies Test
OrientationCommands(Test(_)) ==
  {i \in 1..Len(cmd_vel) : cmd_vel[i].by = "angles_callback" /\ Test(cmd_vel[i].angular_z)}

Negative(q) == QLess(q, Q(0))
Positive(q) == QLess(Q(0), q)
NonZero(q) == q # Q(0)

\* C7: left_turns counts the orientation commands with angular velocity < 0,
\* right_turns those with angular velocity > 0, their sum the non-zero ones; the
\* counters never decrease and distance_callback does not change them.
TurnAccounting ==
  /\ controller.left_turns = Cardinality(OrientationCommands(Negative))
  /\ controller.right_turns = Cardinality(OrientationCommands(Positive))
  /\ controller.left_turns + controller.right_turns
       = Cardinality(OrientationCommands(NonZero))
  /\ controller.left_turns >= last.pre.left_turns
  /\ controller.right_turns >= last.pre.right_turns
  /\ last.cb = "distance_callback" =>
       /\ controller.left_turns = last.pre.left_turns
       /\ controller.right_turns = last.pre.right_turns

\* C7 witness: a left turn, a right turn and a correction with angular velocity 0
\* have all been published.
AllTurnKinds ==
  /\ controller.left_turns = 1
  /\ controller.right_turns = 1
  /\ Len(controller.orientation_errors) = 3
  /\ \A i \in 1..3 : Abs(controller.orientation_errors[i]) \notin 1..(55 * Milli)
  /\ \E i \in 1..Len(cmd_vel) :
       cmd_vel[i].by = "angles_callback" /\ cmd_vel[i].angular_z = Q(0)

\* C8: every command of distance_callback has linear velocity in [-0.2, 0.2] and
\* every command of angles_callback has angular velocity in [-0.1, 0.1].
Clamped ==
  \A i \in 1..Len(cmd_vel) :
    /\ cmd_vel[i].by = "distance_callback" =>
         /\ QLeq(Q(-200 * Milli), cmd_vel[i].linear_x)
         /\ QLeq(cmd_vel[i].linear_x, Q(200 * Milli))
    /\ cmd_vel[i].by = "angles_callback" =>
         /\ QLeq(Q(-100 * Milli), cmd_vel[i].angular_z)
         /\ QLeq(cmd_vel[i].angular_z, Q(100 * Milli))

\* C8 witness: the branch that negates the control signal has published the
\* limit -0.2, and angles_callback a clamped and an unclamped non-zero command.
ClampedBothWays ==
  /\ \E i \in 1..Len(cmd_vel) :
       /\ cmd_vel[i].by = "distance_callback"
       /\ cmd_vel[i].linear_x = Q(-200 * Milli)
       /\ controller.distance_errors[Len(controller.distance_errors)] < 0
       /\ last.cb = "distance_callback"
       /\ i = Len(cmd_vel)
  /\ \E i \in 1..Len(cmd_vel) :
       cmd_vel[i].by = "angles_callback" /\ cmd_vel[i].angular_z = Q(100 * Milli)
  /\ \E i \in 1..Len(cmd_vel) :
       /\ cmd_vel[i].by = "angles_callback"
       /\ cmd_vel[i].angular_z # Q(0)
       /\ QLess(Q(-100 * Milli), cmd_vel[i].angular_z)
       /\ QLess(cmd_vel[i].angular_z, Q(100 * Milli))

\* C9 (as claimed): no distance_callback invocation changes angle_correct and no
\* angles_callback invocation changes distance_correct.
OwnFlagOnly ==
  /\ last.cb = "distance_callback" =>
       controller.angle_correct = last.pre.angle_correct
  /\ last.cb = "angles_callback" =>
       controller.distance_correct = last.pre.distance_correct

\* C9 (amended): distance_callback changes angle_correct only in the invocation
\* that sets target_reached, which resets it to false; angles_callback never
\* changes distance_correct.
OwnFlagExceptAtTermination ==
  /\ (last.cb = "distance_callback"
        /\ controller.angle_correct # last.pre.angle_correct) =>
       /\ JustReached
       /\ last.pre.angle_correct
       /\ ~controller.angle_correct
  /\ last.cb = "angles_callback" =>
       controller.distance_correct = last.pre.distance_correct

\* C9 witness: the terminating distance_callback has reset angle_correct.
FlagResetAtTermination ==
  /\ last.cb = "distance_callback"
  /\ JustReached
  /\ last.pre.angle_correct
  /\ ~controller.angle_correct

\* the error and the clamped control signal of the last distance sample
LastDistanceError == last.arg - 13000 * Milli
LastControlSignal ==
  Clamp(PIDCall(last.pre.pid_distance, LastDistanceError, now).out, SpeedLimit)

\* Neither policy branch matches the last distance sample.
NeitherBranch ==
  /\ ~QLess(LastControlSignal, Q(0))
  /\ 0 <= LastDistanceError
  /\ LastDistanceError <= 300 * Milli

\* C10 (as claimed): a processed distance sample that matches neither branch
\* publishes nothing; every other processed sample publishes exactly one command.
SuppressedBranchSilent ==
  Processed("distance_callback") =>
    Len(cmd_vel) = last.npub + (IF NeitherBranch THEN 0 ELSE 1)

\* C10 (amended): every processed distance sample publishes exactly one command;
\* when neither branch matches it is the default Twist, linear and angular
\* velocity 0.
SuppressedBranchPublishesZero ==
  Processed("distance_callback") =>
    /\ Len(cmd_vel) = last.npub + 1
    /\ LastCommand.by = "distance_callback"
    /\ NeitherBranch =>
         /\ LastCommand.linear_x = Q(0)
         /\ LastCommand.angular_z = Q(0)

\* C10 witness: neither branch matched an in-band sample, distance_correct being
\* true before.
NeitherBranchTaken ==
  /\ Processed("distance_callback")
  /\ NeitherBranch
  /\ LastDistanceError > 0
  /\ last.pre.distance_correct

\* the linear velocities distance_callback published, in order
LinearCommands == SelectSeq(cmd_vel, LAMBDA c : c.by = "distance_callback")

QAbs(q) == IF QLess(q, Q(0)) THEN QNeg(q) ELSE q

\* The convergence scenario has been fed whole, its last distance sample after
\* a dead-band angle sample.
ConvergeFed ==
  /\ Len(controller.time) = Len(ConvergeDistances)
  /\ Len(controller.orientation_errors) >= 1
  /\ last.cb = "distance_callback"

\* C11 (as claimed): the distance samples 20.0, 14.0, 13.2, 13.05 with dead-band
\* angle samples end with target_reached true, the published linear velocities
\* being of non-increasing magnitude.
ScenarioConverges ==
  ConvergeFed =>
    /\ controller.target_reached
    /\ \A i \in 1..(Len(LinearCommands) - 1) :
         QLeq(QAbs(LinearCommands[i + 1].linear_x), QAbs(LinearCommands[i].linear_x))

\* the n-th angle sample of the turn scenario was the last callback
TurnSample(n) ==
  /\ last.cb = "angles_callback"
  /\ Len(controller.orientation_errors) = n
  /\ \A i \in 1..n : controller.orientation_errors[i] = TurnAngles[i]

TurnTimely ==
  /\ last.pre.pid_orientation.last_time <= 8 * TicksPerSecond
  /\ now - last.pre.pid_orientation.last_time >= SampleTimeTicks

FinalReporting ==
  /\ main_pc = "spin" => reports = <<>> /\ plot_calls = 0
  /\ main_pc # "spin" =>
       /\ last.cb \in {"KeyboardInterrupt", "spin_returned"}
       /\ Len(reports) = 1
       /\ reports[1].right_turns = controller.right_turns
       /\ reports[1].left_turns = controller.left_turns
       /\ controller.keyboard_interrupt_occurred = (last.cb = "KeyboardInterrupt")
       /\ plot_calls = IF last.cb = "KeyboardInterrupt" THEN 0 ELSE 1

\* C13 witness: the operator interrupted a run in which a turn was counted.
InterruptedReport ==
  /\ main_pc = "done"
  /\ last.cb = "KeyboardInterrupt"
  /\ reports = <<[right_turns |-> 1, left_turns |-> 1]>>

\* The first policy branch was taken for the last distance sample.
FirstBranch == QLess(LastControlSignal, Q(0)) \/ LastDistanceError > 300 * Milli

\* C14: a processed distance sample sets target_reached exactly when the first
\* policy branch is taken, angle_correct is true on entry and
\* 0 < distance_error < 0.3; in that step distance_correct is set and
\* angle_correct is reset; after every first-branch step distance_correct
\* equals (0 < distance_error < 0.3).
DistanceTermination ==
  Processed("distance_callback") =>
    /\ controller.target_reached <=>
         /\ FirstBranch
         /\ last.pre.angle_correct
         /\ 0 < LastDistanceError /\ LastDistanceError < 300 * Milli
    /\ controller.target_reached =>
         controller.distance_correct /\ ~controller.angle_correct
    /\ FirstBranch =>
         controller.distance_correct =
           (0 < LastDistanceError /\ LastDistanceError < 300 * Milli)

\* C14 witness: an in-band sample with a negative control signal terminates the
\* run, and another in-band sample took the first branch without terminating.
DistanceTerminated ==
  /\ Processed("distance_callback")
  /\ FirstBranch
  /\ controller.target_reached
  /\ last.pre.distance_correct
  /\ last.pre.angle_correct
  /\ Len(controller.time) >= 2

\* callbacks dispatched before the angle sample whose termination check is examined
MaxCheckRun == 3

\* the controller and the clock after one more callback, from each state of S
AfterCallback(S) ==
  UNION { { [w |-> distance_callback(s.w, msg_x, s.t + delta), t |-> s.t + delta] :
              msg_x \in DistanceSamples, delta \in Deltas }
          \cup
          { [w |-> angles_callback(s.w, msg_y, s.t + delta), t |-> s.t + delta] :
              msg_y \in AngleSamples, delta \in Deltas } : s \in S }

\* the states the controller is in after at most n callbacks
RECURSIVE AfterCallbacks(_)
AfterCallbacks(n) ==
  IF n = 0 THEN {[w |-> InitWorld, t |-> 0]}
  ELSE LET S == AfterCallbacks(n - 1) IN S \cup AfterCallback(S)

\* C15 (as claimed): some execution from the initial state has an
\* angles_callback invocation in which check_target_reached finds
\* distance_correct and angle_correct both true and changes target_reached
\* from false to true.
SecondTerminationPath ==
  calls = 0 =>
    \E s \in AfterCallbacks(MaxCheckRun), msg_y \in AngleSamples, delta \in Deltas :
      LET w == angles_callback(s.w, msg_y, s.t + delta)
      IN /\ ~s.w.self.target_reached
         /\ w.self.target_reached
         /\ w.reach_log[Len(w.reach_log)].by = "check_target_reached"

\* C16 (as claimed): while target_reached is false, distance_correct implies
\* that the most recently processed distance sample had 0 < distance_error < 0.3,
\* and angle_correct implies that the most recently processed angle sample had
\* 0 < |angle_variation| <= 0.055.
FlagsNeverStale ==
  ~controller.target_reached =>
    /\ controller.distance_correct =>
         /\ Len(controller.distance_errors) > 0
         /\ LET e == controller.distance_errors[Len(controller.distance_errors)]
            IN 0 < e /\ e < 300 * Milli
    /\ controller.angle_correct =>
         /\ Len(controller.orientation_errors) > 0
         /\ LET v == controller.orientation_errors[Len(controller.orientation_errors)]
            IN v # 0 /\ -55 * Milli <= v /\ v <= 55 * Milli

Appended(log, before) ==
  Len(log) = Len(before) + 1 /\ SubSeq(log, 1, Len(before)) = before

\* The logs are append-only: time and distance_errors grow by one entry with
\* every distance sample processed while target_reached was false and by nothing
\* else, time holding the indices 0, 1, 2, ...; orientation_errors grows by one
\* entry with every such angle sample and by nothing else.
LogsAppendOnly ==
  /\ Len(controller.time) = Len(controller.distance_errors)
  /\ \A i \in 1..Len(controller.time) : controller.time[i] = i - 1
  /\ IF Processed("distance_callback")
     THEN /\ Appended(controller.time, last.pre.time)
          /\ Appended(controller.distance_errors, last.pre.distance_errors)
     ELSE /\ controller.time = last.pre.time
          /\ controller.distance_errors = last.pre.distance_errors
  /\ IF Processed("angles_callback")
     THEN Appended(controller.orientation_errors, last.pre.orientation_errors)
     ELSE controller.orientation_errors = last.pre.orientation_errors

\* C18 (as claimed): the logs are append-only, one entry per sample processed
\* while target_reached was false, time[i] = i, and when the run has ended time
\* and orientation_errors have equal length.
LogsConsistent ==
  /\ LogsAppendOnly
  /\ main_pc # "spin" => Len(controller.time) = Len(controller.orientation_errors)

\* C19: every command published by distance_callback has angular velocity 0
\* and every command published by angles_callback has linear velocity 0.
AxisSeparation ==
  \A i \in 1..Len(cmd_vel) :
    /\ cmd_vel[i].by = "distance_callback" => cmd_vel[i].angular_z = Q(0)
    /\ cmd_vel[i].by = "angles_callback" => cmd_vel[i].linear_x = Q(0)

\* C19 witness: a dead-band command and a turning command follow a distance
\* command with a linear velocity.
BothAxesCommanded ==
  /\ Len(cmd_vel) >= 3
  /\ cmd_vel[1].by = "distance_callback" /\ NonZero(cmd_vel[1].linear_x)
  /\ \E i \in 2..Len(cmd_vel) :
       cmd_vel[i].by = "angles_callback" /\ cmd_vel[i].angular_z = Q(0)
  /\ \E i \in 2..Len(cmd_vel) :
       cmd_vel[i].by = "angles_callback" /\ NonZero(cmd_vel[i].angular_z)

====
